---------------------------- MODULE Spec2Model ----------------------------
(***************************************************************************)
(* df::UserMarkGenerator (drape_frontend/user_mark_generator.cpp): the     *)
(* tile index of user marks and user lines, per group, per zoom level.     *)
(*                                                                         *)
(* The containers are modelled as functions whose DOMAIN is the key set:   *)
(*   m_groupsVisibility : set of group ids                                 *)
(*   m_marks            : group -> drape_ptr<UserMarksRenderCollection>    *)
(*   m_lines            : group -> drape_ptr<UserLinesRenderCollection>    *)
(*   m_marksIndex       : tile -> (group -> IndexesCollection)             *)
(* A drape_ptr is a record [null, items]; a null pointer can enter m_marks *)
(* through std::map::operator[] in GenerateUserMarksGeometry.              *)
(***************************************************************************)
EXTENDS Integers, Sequences, FiniteSets, TLC

(* ------------------------------ bounds -------------------------------- *)
NumGroups == 2
NumPoints == 2
UpperScale == 2
MaxMarks == 2
MaxLines == 1
MaxVertices == 2
MaxOps == 4

(* ------------------------------ domains ------------------------------- *)
Groups == 1..NumGroups
Points == 0..(NumPoints - 1)
ZoomLevels == 1..UpperScale

RECURSIVE Pow2(_)
Pow2(n) == IF n = 0 THEN 1 ELSE 2 * Pow2(n - 1)

\* GetTileKeyByPoint(pt, zoomLevel): the world is split into 2^zoom tiles per
\* axis; a one-dimensional world [0, NumPoints) is enough for the index.
GetTileKeyByPoint(pt, zoomLevel) == <<zoomLevel, (pt * Pow2(zoomLevel)) \div NumPoints>>

TileKeys == UNION {{<<z, x>> : x \in 0..(Pow2(z) - 1)} : z \in ZoomLevels}

SeqsUpTo(S, n) == UNION {[1..k -> S] : k \in 0..n}

\* The collections a caller can hand over.
MarkCollections == SeqsUpTo(Points, MaxMarks)
LinePoints == SeqsUpTo(Points, MaxVertices)
LineCollections == SeqsUpTo(LinePoints, MaxLines)

(* --------------------------- map primitives --------------------------- *)
\* std::map::erase(key)
MapErase(m, k) == [x \in (DOMAIN m) \ {k} |-> m[x]]

\* std::map::insert(make_pair(key, value)): does nothing when the key exists.
MapInsert(m, k, v) ==
  IF k \in DOMAIN m THEN m
  ELSE [x \in (DOMAIN m) \cup {k} |-> IF x = k THEN v ELSE m[x]]

\* Assignment through an iterator / reference to an existing or new slot.
MapPut(m, k, v) == [x \in (DOMAIN m) \cup {k} |-> IF x = k THEN v ELSE m[x]]

EmptyMap == [x \in {} |-> 0]

NullPtr == [null |-> TRUE, items |-> <<>>]
MakePtr(c) == [null |-> FALSE, items |-> c]

\* make_unique_dp<IndexesCollection>()
NewIndexesCollection == [m_markIndexes |-> <<>>, m_lineIndexes |-> <<>>]

SeqToSet(s) == {s[i] : i \in 1..Len(s)}

(* ------------------------------- state -------------------------------- *)
VARIABLES m_flushFn, m_groupsVisibility, m_marks, m_lines, m_marksIndex,
          crashed, flushed, lastOp, cleared, nops

vars == <<m_flushFn, m_groupsVisibility, m_marks, m_lines, m_marksIndex,
          crashed, flushed, lastOp, cleared, nops>>

\* The generator object as one value.
Self == [vis |-> m_groupsVisibility, marks |-> m_marks, lines |-> m_lines,
         index |-> m_marksIndex, crashed |-> crashed, flushed |-> flushed]

(* ----------------------- GetIndexesCollection ------------------------- *)
\* Returns the index with the (tileKey, groupId) slot present.
GetIndexesCollection(index, tileKey, groupId) ==
  LET withTile == IF tileKey \in DOMAIN index THEN index
                  ELSE MapInsert(index, tileKey, EmptyMap)
      tileGroups == withTile[tileKey]
      withGroup == IF groupId \in DOMAIN tileGroups THEN tileGroups
                   ELSE MapInsert(tileGroups, groupId, NewIndexesCollection)
  IN MapPut(withTile, tileKey, withGroup)

(* ----------------------------- CleanIndex ----------------------------- *)
\* First loop: erase the tiles whose group map is empty.  Second loop: in the
\* remaining tiles erase the groups whose two lists are empty.
CleanIndex(index) ==
  LET keepTiles == {t \in DOMAIN index : DOMAIN index[t] # {}}
      afterTiles == [t \in keepTiles |-> index[t]]
  IN [t \in keepTiles |->
        LET gs == afterTiles[t]
            keep == {g \in DOMAIN gs :
                       ~(gs[g].m_markIndexes = <<>> /\ gs[g].m_lineIndexes = <<>>)}
        IN [g \in keep |-> gs[g]]]

(* -------------------------- UpdateMarksIndex -------------------------- *)
\* A variant that clears the mark list of every group.
ClearMarkIndexes_AllGroups(index, groupId) ==
  [t \in DOMAIN index |->
     [g \in DOMAIN index[t] |-> [index[t][g] EXCEPT !.m_markIndexes = <<>>]]]

\* A variant that leaves the old mark positions in place.
ClearMarkIndexes_Keeps(index, groupId) == index

\* Lines 37-42: clear the group's mark list in every tile that has the group.
ClearMarkIndexes(index, groupId) ==
  [t \in DOMAIN index |->
     [g \in DOMAIN index[t] |->
        IF g = groupId THEN [index[t][g] EXCEPT !.m_markIndexes = <<>>]
        ELSE index[t][g]]]

\* A variant that puts the position at the front of the list.
PushMark_Front(index, tileKey, groupId, markIndex) ==
  LET idx == GetIndexesCollection(index, tileKey, groupId)
  IN [idx EXCEPT ![tileKey][groupId].m_markIndexes = <<markIndex>> \o @]

\* push_back of markIndex (0-based) into the slot of (tileKey, groupId).
PushMark(index, tileKey, groupId, markIndex) ==
  LET idx == GetIndexesCollection(index, tileKey, groupId)
  IN [idx EXCEPT ![tileKey][groupId].m_markIndexes = Append(@, markIndex)]

\* Lines 48-56: outer loop over marks, inner loop over zoom levels.
RECURSIVE AddMarks(_, _, _, _, _)
AddMarks(index, groupId, marks, markIndex, zoomLevel) ==
  IF markIndex >= Len(marks) THEN index
  ELSE IF zoomLevel > UpperScale THEN AddMarks(index, groupId, marks, markIndex + 1, 1)
  ELSE AddMarks(PushMark(index, GetTileKeyByPoint(marks[markIndex + 1], zoomLevel),
                         groupId, markIndex),
                groupId, marks, markIndex, zoomLevel + 1)

UpdateMarksIndex(st, groupId) ==
  LET cleared0 == ClearMarkIndexes(st.index, groupId)
  IN IF groupId \notin DOMAIN st.marks
       THEN [st EXCEPT !.index = cleared0]
     ELSE IF st.marks[groupId].null
       \* *m_marks[groupId] on a null drape_ptr, then marks.size(): the read
       \* through the null reference ends the process.
       THEN [st EXCEPT !.index = cleared0, !.crashed = TRUE]
     ELSE [st EXCEPT !.index =
             CleanIndex(AddMarks(cleared0, groupId, st.marks[groupId].items, 0, 1))]

(* -------------------------- UpdateLinesIndex -------------------------- *)
\* A variant that leaves the old line positions in place.
ClearLineIndexes_Keeps(index, groupId) == index

\* Lines 63-68: clear the group's line list in every tile that has the group.
ClearLineIndexes(index, groupId) ==
  [t \in DOMAIN index |->
     [g \in DOMAIN index[t] |->
        IF g = groupId THEN [index[t][g] EXCEPT !.m_lineIndexes = <<>>]
        ELSE index[t][g]]]

PushLine(index, tileKey, groupId, lineIndex) ==
  LET idx == GetIndexesCollection(index, tileKey, groupId)
  IN [idx EXCEPT ![tileKey][groupId].m_lineIndexes = Append(@, lineIndex)]

\* A variant that fills in every tile between the outermost vertices.
LineTiles_Span(points, zoomLevel) ==
  LET xs == {GetTileKeyByPoint(points[i], zoomLevel)[2] : i \in 1..Len(points)}
  IN {<<zoomLevel, x>> : x \in {y \in 0..(Pow2(zoomLevel) - 1) :
                                  \E a \in xs : \E b \in xs : a <= y /\ y <= b}}

\* Lines 79-83: the std::set of tiles the vertices of one line fall into.
LineTiles(points, zoomLevel) ==
  {GetTileKeyByPoint(points[i], zoomLevel) : i \in 1..Len(points)}

\* Lines 84-88: one push_back per tile of the set; the tiles are distinct, so
\* the iteration order does not show in the result.
RECURSIVE PushLineToTiles(_, _, _, _)
PushLineToTiles(index, tiles, groupId, lineIndex) ==
  IF tiles = {} THEN index
  ELSE LET t == CHOOSE x \in tiles : TRUE
       IN PushLineToTiles(PushLine(index, t, groupId, lineIndex),
                          tiles \ {t}, groupId, lineIndex)

RECURSIVE AddLines(_, _, _, _, _)
AddLines(index, groupId, lines, lineIndex, zoomLevel) ==
  IF lineIndex >= Len(lines) THEN index
  ELSE IF zoomLevel > UpperScale THEN AddLines(index, groupId, lines, lineIndex + 1, 1)
  ELSE AddLines(PushLineToTiles(index, LineTiles(lines[lineIndex + 1], zoomLevel),
                                groupId, lineIndex),
                groupId, lines, lineIndex, zoomLevel + 1)

UpdateLinesIndex(st, groupId) ==
  LET cleared0 == ClearLineIndexes(st.index, groupId)
  IN IF groupId \notin DOMAIN st.lines
       THEN [st EXCEPT !.index = cleared0]
     ELSE [st EXCEPT !.index =
             CleanIndex(AddLines(cleared0, groupId, st.lines[groupId].items, 0, 1))]

(* --------------------------- public methods --------------------------- *)
\* A variant that ends with a pruning pass.
ClearUserMarks_Cleans(st, groupId) ==
  LET erased == [st EXCEPT !.vis = @ \ {groupId},
                           !.marks = MapErase(@, groupId),
                           !.lines = MapErase(@, groupId)]
      done == UpdateLinesIndex(UpdateMarksIndex(erased, groupId), groupId)
  IN [done EXCEPT !.index = CleanIndex(@)]

\* A variant that keeps the group's mark collection.
ClearUserMarks_KeepsMarks(st, groupId) ==
  LET erased == [st EXCEPT !.vis = @ \ {groupId},
                           !.lines = MapErase(@, groupId)]
  IN UpdateLinesIndex(UpdateMarksIndex(erased, groupId), groupId)

ClearUserMarks(st, groupId) ==
  LET erased == [st EXCEPT !.vis = @ \ {groupId},
                           !.marks = MapErase(@, groupId),
                           !.lines = MapErase(@, groupId)]
  IN UpdateLinesIndex(UpdateMarksIndex(erased, groupId), groupId)

\* A variant that also makes the group visible.
SetUserMarks_Shows(st, groupId, marks) ==
  UpdateMarksIndex([st EXCEPT !.marks = MapInsert(@, groupId, MakePtr(marks)),
                              !.vis = @ \cup {groupId}], groupId)

SetUserMarks(st, groupId, marks) ==
  UpdateMarksIndex([st EXCEPT !.marks = MapInsert(@, groupId, MakePtr(marks))], groupId)

SetUserLines(st, groupId, lines) ==
  UpdateLinesIndex([st EXCEPT !.lines = MapInsert(@, groupId, MakePtr(lines))], groupId)

\* A variant that also drops the index slots of a group it hides.
SetGroupVisibility_DropsHidden(st, groupId, isVisible) ==
  IF isVisible THEN [st EXCEPT !.vis = @ \cup {groupId}]
  ELSE [st EXCEPT !.vis = @ \ {groupId},
                  !.index = [t \in DOMAIN @ |-> MapErase(@[t], groupId)]]

SetGroupVisibility(st, groupId, isVisible) ==
  IF isVisible THEN [st EXCEPT !.vis = @ \cup {groupId}]
  ELSE [st EXCEPT !.vis = @ \ {groupId}]


(* --------------------- GenerateUserMarksGeometry ---------------------- *)
\* What a null dereference can do: the checked operator* of the pointer stops
\* the process ("trap"), the unchecked one binds a null reference ("proceed").
UBOutcomes == {"trap", "proceed"}

\* CacheUserMarks(tileKey, textures, renderParams, indexes, renderData): the
\* render data is a function of the mark collection and the mark positions;
\* no line collection and no line position is handed over.
CacheUserMarks(tileKey, renderParams, indexes) ==
  [tileKey |-> tileKey, renderParams |-> renderParams, indexes |-> indexes]

\* Lines 163-176: one pass of the loop body per group of the tile, in key order.
RECURSIVE GenerateLoop(_, _, _, _)
GenerateLoop(st, tileKey, groups, ub) ==
  IF groups = {} THEN st
  ELSE
    LET groupId == CHOOSE g \in groups : \A h \in groups : g <= h
        \* m_marks[groupId] default-constructs a null pointer for a new key
        marks1 == MapInsert(st.marks, groupId, NullPtr)
        st1 == [st EXCEPT !.marks = marks1]
        indexes == st.index[tileKey][groupId].m_markIndexes
    IN IF marks1[groupId].null /\ ub = "trap"
         THEN [st1 EXCEPT !.crashed = TRUE]
       ELSE IF groupId \notin st.vis
         THEN GenerateLoop(st1, tileKey, groups \ {groupId}, ub)
       ELSE GenerateLoop(
              [st1 EXCEPT !.flushed =
                 Append(@, [groupId |-> groupId,
                            renderData |-> CacheUserMarks(tileKey, marks1[groupId], indexes)])],
              tileKey, groups \ {groupId}, ub)

GenerateUserMarksGeometry(st, tileKey, ub) ==
  IF tileKey \notin DOMAIN st.index THEN st
  ELSE GenerateLoop(st, tileKey, DOMAIN st.index[tileKey], ub)

(* ------------------------------ actions ------------------------------- *)
\* The flush functions a caller can pass to the constructor.
FlushFns == {"nullptr", "fn"}

\* ASSERT(condition, ()): a failed assertion is fatal, execution goes on only
\* when the condition holds.
ASSERT_Passes(condition) == condition

\* A constructor that checks nothing.
Constructor_Unchecked(flushFn) ==
  [flushFn |-> flushFn, vis |-> {}, marks |-> EmptyMap, lines |-> EmptyMap,
   index |-> EmptyMap, crashed |-> FALSE, flushed |-> <<>>]

\* UserMarkGenerator::UserMarkGenerator(flushFn): empty containers, then the
\* assertion on m_flushFn.
Constructor(flushFn) ==
  [flushFn |-> flushFn, vis |-> {}, marks |-> EmptyMap, lines |-> EmptyMap,
   index |-> EmptyMap, crashed |-> ~ASSERT_Passes(flushFn # "nullptr"),
   flushed |-> <<>>]

Init ==
  \E flushFn \in FlushFns :
    LET st == Constructor(flushFn)
    IN /\ m_flushFn = st.flushFn
       /\ m_groupsVisibility = st.vis
       /\ m_marks = st.marks
       /\ m_lines = st.lines
       /\ m_marksIndex = st.index
       /\ crashed = st.crashed
       /\ flushed = st.flushed
       /\ lastOp = [name |-> "Construct", groupId |-> 0, arg |-> flushFn, prior |-> FALSE,
                   afterClear |-> FALSE]
       /\ cleared = {}
       /\ nops = 0

\* The caller sees the object after the call; the sink calls of the call are
\* those of this call only.
Apply(st) ==
  /\ m_groupsVisibility' = st.vis
  /\ m_marks' = st.marks
  /\ m_lines' = st.lines
  /\ m_marksIndex' = st.index
  /\ crashed' = st.crashed
  /\ flushed' = st.flushed
  /\ m_flushFn' = m_flushFn
  /\ nops' = nops + 1

CanCall == ~crashed /\ nops < MaxOps

Fresh == [Self EXCEPT !.flushed = <<>>]

\* The call before was a ClearUserMarks of g that found a collection of g.
JustCleared(g) ==
  lastOp.name = "ClearUserMarks" /\ lastOp.groupId = g /\ lastOp.prior

DoClearUserMarks(g) ==
  /\ CanCall
  /\ Apply(ClearUserMarks(Fresh, g))
  /\ lastOp' = [name |-> "ClearUserMarks", groupId |-> g, arg |-> <<>>,
                prior |-> (g \in DOMAIN m_marks \/ g \in DOMAIN m_lines),
                afterClear |-> FALSE]
  /\ cleared' = cleared \cup {g}

DoSetUserMarks(g, marks) ==
  /\ CanCall
  /\ Apply(SetUserMarks(Fresh, g, marks))
  /\ lastOp' = [name |-> "SetUserMarks", groupId |-> g, arg |-> marks,
                prior |-> (g \in DOMAIN m_marks /\ ~m_marks[g].null),
                afterClear |-> JustCleared(g)]
  /\ cleared' = cleared \ {g}

DoSetUserLines(g, lines) ==
  /\ CanCall
  /\ Apply(SetUserLines(Fresh, g, lines))
  /\ lastOp' = [name |-> "SetUserLines", groupId |-> g, arg |-> lines,
                prior |-> (g \in DOMAIN m_lines),
                afterClear |-> FALSE]
  /\ cleared' = cleared \ {g}

DoSetGroupVisibility(g, isVisible) ==
  /\ CanCall
  /\ Apply(SetGroupVisibility(Fresh, g, isVisible))
  /\ lastOp' = [name |-> "SetGroupVisibility", groupId |-> g, arg |-> isVisible,
                prior |-> (g \in m_groupsVisibility),
                afterClear |-> FALSE]
  /\ UNCHANGED cleared

DoGenerateUserMarksGeometry(tileKey, ub) ==
  /\ CanCall
  /\ Apply(GenerateUserMarksGeometry(Fresh, tileKey, ub))
  /\ lastOp' = [name |-> "GenerateUserMarksGeometry", groupId |-> 0, arg |-> tileKey,
                prior |-> (tileKey \in DOMAIN m_marksIndex),
                afterClear |-> FALSE]
  /\ UNCHANGED cleared

Next ==
  \/ \E g \in Groups : DoClearUserMarks(g)
  \/ \E g \in Groups : \E marks \in MarkCollections : DoSetUserMarks(g, marks)
  \/ \E g \in Groups : \E lines \in LineCollections : DoSetUserLines(g, lines)
  \/ \E g \in Groups : \E isVisible \in BOOLEAN : DoSetGroupVisibility(g, isVisible)
  \/ \E tileKey \in TileKeys : \E ub \in UBOutcomes : DoGenerateUserMarksGeometry(tileKey, ub)

Spec == Init /\ [][Next]_vars

\* The same calls with line collections one line longer, one call fewer.
WideLineCollections == SeqsUpTo(LinePoints, MaxLines + 1)

WideCall == nops < MaxOps - 1

NextWide ==
  \/ \E g \in Groups : WideCall /\ DoClearUserMarks(g)
  \/ \E g \in Groups : \E marks \in MarkCollections : WideCall /\ DoSetUserMarks(g, marks)
  \/ \E g \in Groups : \E lines \in WideLineCollections : WideCall /\ DoSetUserLines(g, lines)
  \/ \E g \in Groups : \E isVisible \in BOOLEAN :
       WideCall /\ DoSetGroupVisibility(g, isVisible)
  \/ \E tileKey \in TileKeys : \E ub \in UBOutcomes :
       WideCall /\ DoGenerateUserMarksGeometry(tileKey, ub)

SpecWide == Init /\ [][NextWide]_vars

(* -------------------------- reading the index ------------------------- *)
\* The lists of (tileKey, groupId), an absent slot read as two empty lists.
MarkList(index, tileKey, groupId) ==
  IF tileKey \in DOMAIN index /\ groupId \in DOMAIN index[tileKey]
    THEN index[tileKey][groupId].m_markIndexes ELSE <<>>

LineList(index, tileKey, groupId) ==
  IF tileKey \in DOMAIN index /\ groupId \in DOMAIN index[tileKey]
    THEN index[tileKey][groupId].m_lineIndexes ELSE <<>>

\* The sink calls for one group in a list of sink calls.
FlushCountIn(calls, g) == Cardinality({i \in 1..Len(calls) : calls[i].groupId = g})

FlushedGroups == {flushed[i].groupId : i \in 1..Len(flushed)}
FlushCount(g) == FlushCountIn(flushed, g)

(* ------------------------- claim vocabulary --------------------------- *)
IsGenerate(op) == op.name = "GenerateUserMarksGeometry"

\* The tiles the marks of a collection fall into, over all zoom levels.
TilesOfMarks(marks) ==
  {GetTileKeyByPoint(marks[i], z) : i \in 1..Len(marks), z \in ZoomLevels}

\* The positions (0-based, ascending) of the lines with a vertex in tileKey.
HasVertexIn(points, tileKey) ==
  \E i \in 1..Len(points) : GetTileKeyByPoint(points[i], tileKey[1]) = tileKey

DerivedLineList(lines, tileKey) ==
  LET Touches(j) == HasVertexIn(lines[j + 1], tileKey)
  IN SelectSeq([i \in 1..Len(lines) |-> i - 1], Touches)

NoEmptyTile == \A t \in DOMAIN m_marksIndex : DOMAIN m_marksIndex[t] # {}

NoEmptyGroup ==
  \A t \in DOMAIN m_marksIndex : \A g \in DOMAIN m_marksIndex[t] :
    ~(m_marksIndex[t][g].m_markIndexes = <<>> /\ m_marksIndex[t][g].m_lineIndexes = <<>>)

(* ------------------------------- claims ------------------------------- *)

\* C1 (as claimed): after any sequence of mutating calls the index holds no
\* tile with an empty group map and no (tile, group) slot with both lists empty.
C1_PruningInvariant == ~crashed => (NoEmptyTile /\ NoEmptyGroup)

\* C2 (as claimed): after ReplaceMarks(g, M2) that follows an earlier
\* ReplaceMarks(g, M1) with no Clear in between, with g visible, Generate on a
\* tile where g has no line position calls the sink once for g when a mark of
\* M2 maps to the tile and never when none does.
C2_MarksStalenessEliminated ==
  [][(/\ lastOp.name = "SetUserMarks" /\ lastOp.prior
      /\ lastOp.groupId \in m_groupsVisibility
      /\ IsGenerate(lastOp') /\ ~crashed'
      /\ LineList(m_marksIndex, lastOp'.arg, lastOp.groupId) = <<>>)
     => FlushCountIn(flushed', lastOp.groupId) =
          (IF lastOp'.arg \in TilesOfMarks(lastOp.arg) THEN 1 ELSE 0)]_vars

\* C3 (as claimed): after ReplaceMarks(g, M), in whatever state it is called,
\* with g visible, Generate on the tile of mark i of M at any zoom level calls
\* the sink exactly once for g, with a position list that contains i.
C3_MarksRebuilt ==
  [][(/\ lastOp.name = "SetUserMarks"
      /\ lastOp.groupId \in m_groupsVisibility
      /\ IsGenerate(lastOp') /\ ~crashed'
      /\ lastOp'.arg \in TilesOfMarks(lastOp.arg))
     => /\ FlushCountIn(flushed', lastOp.groupId) = 1
        /\ \A k \in 1..Len(flushed') :
             flushed'[k].groupId = lastOp.groupId =>
               \A i \in 1..Len(lastOp.arg) :
                 GetTileKeyByPoint(lastOp.arg[i], lastOp'.arg[1]) = lastOp'.arg
                   => (i - 1) \in SeqToSet(flushed'[k].renderData.indexes)]_vars

\* C4 (as claimed): a group that was cleared, then made visible, and has had
\* no Replace call since, gets no sink call from Generate on any tile.
C4_ClearComplete ==
  (IsGenerate(lastOp) /\ ~crashed)
    => \A g \in cleared \cap m_groupsVisibility : g \notin FlushedGroups

\* C5 (as claimed): right after Clear(g), g is not visible, has no mark and no
\* line collection, and no tile of the index has a slot for g.
C5_ClearLeavesNoTrace ==
  lastOp.name = "ClearUserMarks"
    => /\ lastOp.groupId \notin m_groupsVisibility
       /\ lastOp.groupId \notin DOMAIN m_marks
       /\ lastOp.groupId \notin DOMAIN m_lines
       /\ \A t \in DOMAIN m_marksIndex : lastOp.groupId \notin DOMAIN m_marksIndex[t]

\* C6 (as claimed): right after ReplaceLines(g, L2) that follows an earlier
\* ReplaceLines(g, L1) with no Clear in between, the stored line collection of
\* g is L2 and g's line list in every tile is the one derived from L2.
C6_LinesStalenessEliminated ==
  (lastOp.name = "SetUserLines" /\ lastOp.prior)
    => /\ lastOp.groupId \in DOMAIN m_lines
       /\ m_lines[lastOp.groupId] = MakePtr(lastOp.arg)
       /\ \A t \in TileKeys :
            LineList(m_marksIndex, t, lastOp.groupId) = DerivedLineList(lastOp.arg, t)

\* C7 (as claimed): Generate(T) calls the sink exactly once for each group that
\* has a slot under T and is visible, and never for any other group; when T is
\* not in the index it calls the sink for no group.
C7_GenerateDelivery ==
  IsGenerate(lastOp)
    => \A g \in Groups :
         FlushCount(g) =
           (IF /\ lastOp.arg \in DOMAIN m_marksIndex
               /\ g \in DOMAIN m_marksIndex[lastOp.arg]
               /\ g \in m_groupsVisibility
            THEN 1 ELSE 0)

\* C8: SetVisibility(g, v) leaves the index and the stored mark and line
\* collections as they were; it only puts g into or takes g out of the
\* visibility set.
C8_VisibilityIndependence ==
  [][lastOp'.name = "SetGroupVisibility"
     => /\ m_marksIndex' = m_marksIndex
        /\ m_marks' = m_marks
        /\ m_lines' = m_lines
        /\ m_groupsVisibility' =
             (IF lastOp'.arg THEN m_groupsVisibility \cup {lastOp'.groupId}
              ELSE m_groupsVisibility \ {lastOp'.groupId})]_vars

\* C8 witness: a visibility call on a group that has index entries.
C8_Witness ==
  /\ lastOp.name = "SetGroupVisibility"
  /\ lastOp.prior /\ lastOp.arg = FALSE
  /\ \E t \in DOMAIN m_marksIndex :
       /\ lastOp.groupId \in DOMAIN m_marksIndex[t]
       /\ m_marksIndex[t][lastOp.groupId].m_markIndexes # <<>>

\* C9 (as claimed): for a visible group with line positions under T, the
\* payload Generate(T) hands to the sink is built from the group's line
\* collection and T's line list, as it is from the marks and the mark list.
C9_GenerateUsesLines ==
  (IsGenerate(lastOp) /\ ~crashed)
    => \A k \in 1..Len(flushed) :
         LET g == flushed[k].groupId
             rd == flushed[k].renderData
         IN LineList(m_marksIndex, lastOp.arg, g) # <<>>
              => /\ "lineParams" \in DOMAIN rd
                 /\ "lineIndexes" \in DOMAIN rd
                 /\ rd.lineParams = m_lines[g]
                 /\ rd.lineIndexes = LineList(m_marksIndex, lastOp.arg, g)

\* C10: right after ReplaceLines(g, L) on a group that had no line collection,
\* for every zoom level z, every tile T of z and every position j of L, j is in
\* g's line list under T exactly when a vertex of L[j] maps to T at zoom z.
C10_VertexOnlyLines ==
  (lastOp.name = "SetUserLines" /\ ~lastOp.prior)
    => \A t \in TileKeys : \A j \in 0..(Len(lastOp.arg) - 1) :
         (j \in SeqToSet(LineList(m_marksIndex, t, lastOp.groupId)))
           <=> HasVertexIn(lastOp.arg[j + 1], t)

\* C10 witness: a line with vertices in the first and the last tile of the
\* deepest zoom level only, registered there and not in the tile between them.
C10_Witness ==
  /\ lastOp.name = "SetUserLines" /\ ~lastOp.prior
  /\ Len(lastOp.arg) >= 1
  /\ lastOp.arg[1] = <<0, NumPoints - 1>>
  /\ \E x \in 0..(Pow2(UpperScale) - 1) :
       /\ GetTileKeyByPoint(0, UpperScale)[2] < x
       /\ x < GetTileKeyByPoint(NumPoints - 1, UpperScale)[2]
       /\ LineList(m_marksIndex, <<UpperScale, x>>, lastOp.groupId) = <<>>
  /\ 0 \in SeqToSet(LineList(m_marksIndex, GetTileKeyByPoint(0, UpperScale), lastOp.groupId))
  /\ 0 \in SeqToSet(LineList(m_marksIndex, GetTileKeyByPoint(NumPoints - 1, UpperScale),
                             lastOp.groupId))

\* The containers of the generator.
Containers == <<m_groupsVisibility, m_marks, m_lines, m_marksIndex>>

\* A group the generator knows nothing of.
UnknownGroup(g) ==
  /\ g \notin m_groupsVisibility
  /\ g \notin DOMAIN m_marks
  /\ g \notin DOMAIN m_lines
  /\ \A t \in DOMAIN m_marksIndex : g \notin DOMAIN m_marksIndex[t]

\* C11: Clear(g) on a group without collections, visibility and index slots
\* changes no container, and a Clear(g) that directly follows a Clear(g)
\* changes no container either.
C11_ClearNoOpIdempotent ==
  [][lastOp'.name = "ClearUserMarks"
     => /\ UnknownGroup(lastOp'.groupId) => Containers' = Containers
        /\ (lastOp.name = "ClearUserMarks" /\ lastOp.groupId = lastOp'.groupId)
             => Containers' = Containers]_vars

\* C11 witness: Clear on a group that has no collection any more but still has
\* slots in the index.
C11_Witness ==
  /\ lastOp.name = "ClearUserMarks" /\ ~lastOp.prior
  /\ \E t \in DOMAIN m_marksIndex : lastOp.groupId \in DOMAIN m_marksIndex[t]

\* C12: a generator constructed with a null flush function is stopped in its
\* constructor: nothing is in its containers and no method is ever called.
C12_NullSinkRefused ==
  m_flushFn = "nullptr"
    => /\ crashed
       /\ lastOp.name = "Construct"
       /\ nops = 0
       /\ Containers = <<{}, EmptyMap, EmptyMap, EmptyMap>>

\* C12 witness: the constructor was given a null flush function.
C12_Witness == m_flushFn = "nullptr" /\ lastOp.name = "Construct" /\ crashed

\* The (tile, group) slots of the index.
Slots == {<<t, g>> \in TileKeys \X Groups :
            t \in DOMAIN m_marksIndex /\ g \in DOMAIN m_marksIndex[t]}

HasCollection(m, g) == g \in DOMAIN m /\ ~m[g].null

\* C13: in every slot of the index a non-empty mark list belongs to a group
\* with a stored mark collection and holds only positions below its size; the
\* same for the line list and the stored line collection.
C13_PositionsValid ==
  \A s \in Slots :
    LET e == m_marksIndex[s[1]][s[2]]
    IN /\ e.m_markIndexes # <<>> => HasCollection(m_marks, s[2])
       /\ \A i \in SeqToSet(e.m_markIndexes) : i >= 0 /\ i < Len(m_marks[s[2]].items)
       /\ e.m_lineIndexes # <<>> => HasCollection(m_lines, s[2])
       /\ \A j \in SeqToSet(e.m_lineIndexes) : j >= 0 /\ j < Len(m_lines[s[2]].items)

\* C13 witness: a slot that holds two mark positions and two line positions.
C13_Witness ==
  \E s \in Slots :
    /\ Len(m_marksIndex[s[1]][s[2]].m_markIndexes) = 2
    /\ Len(m_marksIndex[s[1]][s[2]].m_lineIndexes) = 2

C15_MarkListAscending ==
  \A s \in Slots :
    LET l == m_marksIndex[s[1]][s[2]].m_markIndexes
    IN \A i \in 1..Len(l) : \A j \in 1..Len(l) : i < j => l[i] < l[j]

\* C15 witness: a slot whose mark list holds two marks of one collection.
C15_Witness ==
  \E s \in Slots : m_marksIndex[s[1]][s[2]].m_markIndexes = <<0, 1>>

\* C16: no line position occurs twice in the line list of a slot.
C16_LineListUnique ==
  \A s \in Slots :
    LET l == m_marksIndex[s[1]][s[2]].m_lineIndexes
    IN \A i \in 1..Len(l) : \A j \in 1..Len(l) : i # j => l[i] # l[j]

\* C16 witness: after a repeated ReplaceLines, a line with two vertices in one
\* tile is listed under that tile.
C16_Witness ==
  /\ lastOp.name = "SetUserLines" /\ lastOp.prior
  /\ \E j \in 1..Len(m_lines[lastOp.groupId].items) :
       LET line == m_lines[lastOp.groupId].items[j]
       IN /\ Len(line) = 2 /\ line[1] = line[2]
          /\ (j - 1) \in SeqToSet(LineList(m_marksIndex,
                                           GetTileKeyByPoint(line[1], UpperScale),
                                           lastOp.groupId))

\* C17: ReplaceMarks and ReplaceLines leave the visibility set as it was; only
\* SetVisibility and Clear change it.
C17_ReplaceKeepsVisibility ==
  [][/\ lastOp'.name \in {"SetUserMarks", "SetUserLines"}
          => m_groupsVisibility' = m_groupsVisibility
     /\ m_groupsVisibility' # m_groupsVisibility
          => lastOp'.name \in {"SetGroupVisibility", "ClearUserMarks"}]_vars

\* C17 witness: marks were set for a group that is not visible and is indexed.
C17_Witness ==
  /\ lastOp.name = "SetUserMarks" /\ ~crashed
  /\ lastOp.groupId \notin m_groupsVisibility
  /\ \E t \in TileKeys : MarkList(m_marksIndex, t, lastOp.groupId) # <<>>

\* C18 (as claimed): Generate(T) leaves the index, the visibility set and the
\* sets of groups with a stored mark collection and with a stored line
\* collection as they were.
C18_GenerateIsPure ==
  [][(IsGenerate(lastOp') /\ ~crashed')
     => /\ m_marksIndex' = m_marksIndex
        /\ m_groupsVisibility' = m_groupsVisibility
        /\ DOMAIN m_marks' = DOMAIN m_marks
        /\ DOMAIN m_lines' = DOMAIN m_lines]_vars

\* C19 (as claimed): every group that has a slot under the tile Generate is
\* called for has a stored, non-null mark collection when Generate reads it.
C19_GenerateReadsStoredMarks ==
  [][(IsGenerate(lastOp') /\ lastOp'.arg \in DOMAIN m_marksIndex)
     => \A g \in DOMAIN m_marksIndex[lastOp'.arg] : HasCollection(m_marks, g)]_vars

\* C20: ReplaceMarks(g), ReplaceLines(g) and Clear(g) leave both lists of every
\* other group as they were under every tile, an absent slot read as two empty
\* lists; ReplaceMarks(g) also leaves g's line lists and ReplaceLines(g) g's
\* mark lists as they were.
C20_GroupIsolation ==
  [][lastOp'.name \in {"SetUserMarks", "SetUserLines", "ClearUserMarks"}
     => \A t \in TileKeys :
          /\ \A h \in Groups \ {lastOp'.groupId} :
               /\ MarkList(m_marksIndex', t, h) = MarkList(m_marksIndex, t, h)
               /\ LineList(m_marksIndex', t, h) = LineList(m_marksIndex, t, h)
          /\ lastOp'.name = "SetUserMarks"
               => LineList(m_marksIndex', t, lastOp'.groupId)
                    = LineList(m_marksIndex, t, lastOp'.groupId)
          /\ lastOp'.name = "SetUserLines"
               => MarkList(m_marksIndex', t, lastOp'.groupId)
                    = MarkList(m_marksIndex, t, lastOp'.groupId)]_vars

\* C20 witness: marks were set for a group that has line positions while
\* another group has mark positions.
C20_Witness ==
  /\ lastOp.name = "SetUserMarks" /\ ~crashed
  /\ \E t \in TileKeys : LineList(m_marksIndex, t, lastOp.groupId) # <<>>
  /\ \E t \in TileKeys : MarkList(m_marksIndex, t, lastOp.groupId) # <<>>
  /\ \E h \in Groups \ {lastOp.groupId} : \E t \in TileKeys :
       MarkList(m_marksIndex, t, h) # <<>>

\* The index a newly constructed generator has after SetUserMarks(g, M).
FreshReplaceIndex(g, M) == SetUserMarks(Constructor("fn"), g, M).index

\* C21: ReplaceMarks(g, M) directly after Clear(g) leaves g with the stored
\* mark collection M, no stored line collection, empty line lists, and under
\* every tile the mark list that ReplaceMarks(g, M) gives on a new generator,
\* an absent slot read as two empty lists.
C21_ClearThenReplaceIsFresh ==
  [][(/\ lastOp.name = "ClearUserMarks"
      /\ lastOp'.name = "SetUserMarks"
      /\ lastOp'.groupId = lastOp.groupId)
     => /\ ~crashed'
        /\ lastOp'.groupId \in DOMAIN m_marks'
        /\ m_marks'[lastOp'.groupId] = MakePtr(lastOp'.arg)
        /\ lastOp'.groupId \notin DOMAIN m_lines'
        /\ \A t \in TileKeys :
             /\ LineList(m_marksIndex', t, lastOp'.groupId) = <<>>
             /\ MarkList(m_marksIndex', t, lastOp'.groupId)
                  = MarkList(FreshReplaceIndex(lastOp'.groupId, lastOp'.arg),
                             t, lastOp'.groupId)]_vars

\* C21 witness: marks were set for a group directly after a Clear that found
\* a collection of the group, and the group is indexed again.
C21_Witness ==
  /\ lastOp.name = "SetUserMarks" /\ lastOp.afterClear /\ ~crashed
  /\ \E t \in TileKeys : MarkList(m_marksIndex, t, lastOp.groupId) # <<>>

====
